---- MODULE Spec2Model ----
(***************************************************************************)
(* A model of two files of habitat-lab:                                    *)
(*                                                                         *)
(*   examples/new_actions.py                                               *)
(*       the noisy strafe actuation (_strafe_impl and its two move         *)
(*       functions), the two action-space configurations NoNoiseStrafe     *)
(*       and NoiseStrafe, and the use the example's main() makes of them;  *)
(*   habitat_baselines/config/default_structured_configs.py                *)
(*       the configuration dataclasses and the entries stored in the       *)
(*       configuration store while the module is imported.                 *)
(*                                                                         *)
(* Numbers.  The code computes with floats; the model computes with        *)
(* integers in fixed point.  Lengths are in 1/100 m (0.25 m is 25),        *)
(* angles given in degrees are whole degrees, radians are in               *)
(* micro-radians, and noise_amount is in 1/NoiseUnit (0.05 is 5).  A       *)
(* product with (1 - noise_amount) or (1 + noise_amount) is kept           *)
(* unrounded, so a perturbed angle or distance is in 1/NoiseUnit of the    *)
(* unit of its nominal value.                                              *)
(*                                                                         *)
(* Vectors.  The agent's body node turns about the vertical axis only,     *)
(* and _strafe_impl rotates about habitat_sim.geo.UP only, so every        *)
(* vector the code handles lies in the horizontal plane.  Such a vector    *)
(* is kept in polar form [dir, len]: dir is its angle about UP measured    *)
(* from habitat_sim.geo.FRONT, len its signed length.  A rotation about    *)
(* UP adds to dir, which is exact.  A translation is a sum of vectors; it  *)
(* is kept as the sequence of its terms, so that no sine or cosine has to  *)
(* be rounded.                                                             *)
(***************************************************************************)
EXTENDS Integers, Sequences, FiniteSets, TLC

(***************************************************************************)
(* Bounds of the model.                                                    *)
(***************************************************************************)
\* np.random.uniform is sampled at the points low + (high - low) * u / UGrid.
UGrid == 2
\* Number of strafes (calls of _strafe_impl) in one behaviour.
MaxStrafes == 2
\* Number of environment steps that end in the host framework's error.
MaxErrors == 1
\* Number of HabitatBaselinesConfig records constructed in one behaviour.
MaxRecords == 2
\* Number of overrides applied in one behaviour.
MaxOverrides == 2

VARIABLES
    \* ---- examples/new_actions.py ----
    sim_actions,          \* HabitatSimActions: action name -> integer key
    registry,             \* the registries filled by the decorators at import
    task_actions,         \* config.habitat.task.actions: name -> task action type
    action_space_config,  \* config.habitat.simulator.action_space_config
    env,                  \* the open habitat.Env, or NoEnv
    nodes,                \* the scene nodes: id -> [translation, rotation]
    call,                 \* the last call of a move function: class, node, spec
    outcome,              \* how the last env.step / habitat.Env(...) ended
    nstrafes,             \* calls of _strafe_impl so far
    nerrors,              \* errors raised so far
    \* ---- default_structured_configs.py ----
    pc,                   \* the next statement of the module being imported
    store,                \* cs: "group/name" -> the class stored as node
    heap,                 \* objects: id -> record of attribute values
    records,              \* the HabitatBaselinesConfig records constructed
    fresh,                \* the record constructed last, no override since; or None
    resolved,             \* the last resolved ORB-SLAM configuration, or NoResolved
    noverrides            \* overrides applied so far

actionVars == <<sim_actions, registry, task_actions, action_space_config, env,
                nodes, call, outcome, nstrafes, nerrors>>
configVars == <<pc, store, heap, records, fresh, resolved, noverrides>>
vars == <<sim_actions, registry, task_actions, action_space_config, env,
          nodes, call, outcome, nstrafes, nerrors,
          pc, store, heap, records, fresh, resolved, noverrides>>

None == "None"

(***************************************************************************)
(*                      examples/new_actions.py                            *)
(***************************************************************************)

(* ------------------------- numbers and vectors ------------------------- *)

\* noise_amount 1.0 in the model's unit: the float field noise_amount is
\* kept in hundredths.
NoiseUnit == 100
\* Micro-radians in one degree (pi / 180 = 0.017453...).
MicroRadPerDeg == 17453

\* np.deg2rad: degrees to radians (here micro-radians).
deg2rad(deg) == deg * MicroRadPerDeg

\* A variant of np_random_uniform that scales the sample by high instead of
\* by the width high - low.
np_random_uniform_by_high(low, high, u) == low + (high * u) \div UGrid

\* np.random.uniform(low, high): low + (high - low) * random_sample(), the
\* sample being u / UGrid.  numpy computes the same expression when
\* high < low, and its rounding can return high itself, so u ranges over
\* 0 .. UGrid.
np_random_uniform(low, high, u) == low + ((high - low) * u) \div UGrid

\* habitat_sim.geo.FRONT and habitat_sim.geo.UP.
FRONT == [dir |-> 0, len |-> 1]
UP == "UP"

\* scene_node.absolute_transformation().rotation_scaling() @ v, for a node
\* that is turned about UP, not scaled, and a child of the scene's root.
rotation_scaling_matmul(scene_node, v) ==
    [dir |-> scene_node.rotation + v.dir, len |-> v.len]

\* habitat_sim.utils.quat_from_angle_axis(theta, axis).
quat_from_angle_axis(theta, axis) == [angle |-> theta, axis |-> axis]

\* habitat_sim.utils.quat_rotate_vector(q, v), for q about UP and v in the
\* horizontal plane.
quat_rotate_vector(q, v) == [dir |-> v.dir + q.angle, len |-> v.len]

\* move_ax * move_amount.
vec_scale(v, k) == [dir |-> v.dir, len |-> v.len * k]

\* A variant of translate_local that also turns the node towards v.
translate_local_turning(scene_node, v) ==
    [scene_node EXCEPT !.translation = Append(@, v), !.rotation = v.dir]

\* scene_node.translate_local(v): habitat-sim's scene nodes keep translation,
\* rotation and scaling apart, and translate_local adds v to the translation.
translate_local(scene_node, v) ==
    [scene_node EXCEPT !.translation = Append(@, v)]

(* ------------------------------ the strafe ----------------------------- *)

\* A variant of NoisyStrafeActuationSpec in which the defaults replace the
\* arguments given.
NoisyStrafeActuationSpec_defaults_win(args) ==
    [strafe_angle |-> 90, noise_amount |-> 5] @@ args

\* @attr.s class NoisyStrafeActuationSpec: the arguments given, the
\* defaults for the others.
NoisyStrafeActuationSpec(args) ==
    args @@ [strafe_angle |-> 90, noise_amount |-> 5]

\* _strafe_impl(scene_node, move_amount, strafe_angle, noise_amount); ua and
\* ud are the two draws of the random generator.  The result is the node
\* after the call.
_strafe_impl(scene_node, move_amount, strafe_angle, noise_amount, ua, ud) ==
    LET forward_ax == rotation_scaling_matmul(scene_node, FRONT)
        rad        == deg2rad(strafe_angle)
        angle      == np_random_uniform((NoiseUnit - noise_amount) * rad,
                                        (NoiseUnit + noise_amount) * rad, ua)
        rotation   == quat_from_angle_axis(angle, UP)
        move_ax    == quat_rotate_vector(rotation, forward_ax)
        amount     == np_random_uniform((NoiseUnit - noise_amount) * move_amount,
                                        (NoiseUnit + noise_amount) * move_amount, ud)
    IN  translate_local(scene_node, vec_scale(move_ax, amount))

\* NoisyStrafeLeft.__call__(scene_node, actuation_spec).
NoisyStrafeLeft(scene_node, actuation_spec, ua, ud) ==
    _strafe_impl(scene_node, actuation_spec.move_amount,
                 actuation_spec.strafe_angle, actuation_spec.noise_amount, ua, ud)

\* A variant of NoisyStrafeRight that passes strafe_angle without negating it.
NoisyStrafeRight_not_negated(scene_node, actuation_spec, ua, ud) ==
    _strafe_impl(scene_node, actuation_spec.move_amount,
                 actuation_spec.strafe_angle, actuation_spec.noise_amount, ua, ud)

\* NoisyStrafeRight.__call__(scene_node, actuation_spec).
NoisyStrafeRight(scene_node, actuation_spec, ua, ud) ==
    _strafe_impl(scene_node, actuation_spec.move_amount,
                 0 - actuation_spec.strafe_angle, actuation_spec.noise_amount, ua, ud)

\* The call of the move function registered as class cls.
MoveFn(cls, scene_node, actuation_spec, ua, ud) ==
    IF cls = "NoisyStrafeLeft"
    THEN NoisyStrafeLeft(scene_node, actuation_spec, ua, ud)
    ELSE NoisyStrafeRight(scene_node, actuation_spec, ua, ud)

(* ------------------------ action-space configurations ------------------ *)

\* habitat_sim.ActionSpec(name, actuation).
ActionSpec(name, actuation) == [name |-> name, actuation |-> actuation]

\* The enum HabitatSimActions starts from: habitat-lab's default simulator
\* actions and their integer values.
DefaultHabitatSimActions ==
    [stop |-> 0, move_forward |-> 1, turn_left |-> 2, turn_right |-> 3,
     look_up |-> 4, look_down |-> 5]

\* HabitatSimV0ActionSpaceConfiguration.get(): the default action space.
HabitatSimV0Get(acts) ==
    (acts.stop :> ActionSpec("stop", [kind |-> "none"]))
    @@ (acts.move_forward :> ActionSpec("move_forward", [kind |-> "forward_step_size"]))
    @@ (acts.turn_left :> ActionSpec("turn_left", [kind |-> "turn_angle"]))
    @@ (acts.turn_right :> ActionSpec("turn_right", [kind |-> "turn_angle"]))

\* HabitatSimV1ActionSpaceConfiguration.get(): V0 and the two look actions.
HabitatSimV1Get(acts) ==
    HabitatSimV0Get(acts)
    @@ (acts.look_up :> ActionSpec("look_up", [kind |-> "tilt_angle"]))
    @@ (acts.look_down :> ActionSpec("look_down", [kind |-> "tilt_angle"]))

\* config[key] = value on a Python dict.
DictSet(d, key, value) == (key :> value) @@ d

\* A variant of NoNoiseStrafe.get() whose second assignment repeats the key of
\* the first.
NoNoiseStrafeGet_left_twice(acts) ==
    LET config == HabitatSimV1Get(acts)
        c1 == DictSet(config, acts.STRAFE_LEFT,
                      ActionSpec("noisy_strafe_left",
                                 NoisyStrafeActuationSpec(
                                     [move_amount |-> 25, noise_amount |-> 0])))
        c2 == DictSet(c1, acts.STRAFE_LEFT,
                      ActionSpec("noisy_strafe_right",
                                 NoisyStrafeActuationSpec(
                                     [move_amount |-> 25, noise_amount |-> 0])))
    IN  c2

\* NoNoiseStrafe.get().
NoNoiseStrafeGet(acts) ==
    LET config == HabitatSimV1Get(acts)
        c1 == DictSet(config, acts.STRAFE_LEFT,
                      ActionSpec("noisy_strafe_left",
                                 NoisyStrafeActuationSpec(
                                     [move_amount |-> 25, noise_amount |-> 0])))
        c2 == DictSet(c1, acts.STRAFE_RIGHT,
                      ActionSpec("noisy_strafe_right",
                                 NoisyStrafeActuationSpec(
                                     [move_amount |-> 25, noise_amount |-> 0])))
    IN  c2

\* A variant of NoiseStrafe.get() that starts from an empty dict instead of
\* super().get().
NoiseStrafeGet_own_dict(acts) ==
    LET config == <<>>
        c1 == DictSet(config, acts.STRAFE_LEFT,
                      ActionSpec("noisy_strafe_left",
                                 NoisyStrafeActuationSpec(
                                     [move_amount |-> 25, noise_amount |-> 5])))
        c2 == DictSet(c1, acts.STRAFE_RIGHT,
                      ActionSpec("noisy_strafe_right",
                                 NoisyStrafeActuationSpec(
                                     [move_amount |-> 25, noise_amount |-> 5])))
    IN  c2

\* NoiseStrafe.get().
NoiseStrafeGet(acts) ==
    LET config == HabitatSimV1Get(acts)
        c1 == DictSet(config, acts.STRAFE_LEFT,
                      ActionSpec("noisy_strafe_left",
                                 NoisyStrafeActuationSpec(
                                     [move_amount |-> 25, noise_amount |-> 5])))
        c2 == DictSet(c1, acts.STRAFE_RIGHT,
                      ActionSpec("noisy_strafe_right",
                                 NoisyStrafeActuationSpec(
                                     [move_amount |-> 25, noise_amount |-> 5])))
    IN  c2

\* The names the two new configurations read from HabitatSimActions.
StrafeNames == {"STRAFE_LEFT", "STRAFE_RIGHT"}

\* The registries after the module is imported: the move functions
\* (habitat_sim registers a class under its name in snake case), the
\* action-space configurations and the task actions.
ImportedRegistry ==
    [move_fn |-> [noisy_strafe_left |-> "NoisyStrafeLeft",
                  noisy_strafe_right |-> "NoisyStrafeRight"],
     action_space_configuration |-> {"v0", "v1", "NoNoiseStrafe", "NoiseStrafe"},
     task_action |-> {"StrafeLeft", "StrafeRight"}]

\* The action space habitat.Env builds for the configuration named cfg:
\* the registered configuration's get().
ActionSpaceOf(cfg, acts) ==
    CASE cfg = "v0" -> HabitatSimV0Get(acts)
      [] cfg = "v1" -> HabitatSimV1Get(acts)
      [] cfg = "NoNoiseStrafe" -> NoNoiseStrafeGet(acts)
      [] cfg = "NoiseStrafe" -> NoiseStrafeGet(acts)

\* Whether get() of the configuration named cfg can be evaluated: the two
\* new configurations read HabitatSimActions.STRAFE_LEFT and STRAFE_RIGHT.
GetDefined(cfg, acts) ==
    cfg \in {"NoNoiseStrafe", "NoiseStrafe"} => StrafeNames \subseteq DOMAIN acts

\* StrafeLeft.step / StrafeRight.step: the simulator action the task action
\* of the given type sets.
TaskActionSimName(type) ==
    IF type = "StrafeLeft" THEN "STRAFE_LEFT" ELSE "STRAFE_RIGHT"

(* ------------------------------- the state ----------------------------- *)

\* The scene nodes of the model: the agent's body node, which the simulator
\* hands to a move function, and one other node of the scene graph.
Nodes == {"agent_body", "other"}

\* The turns about UP (degrees) the body node may start with.
StartYaws == {0, 90}

\* A node at the origin, turned by yaw degrees about UP.
SceneNode(yaw) == [translation |-> <<>>, rotation |-> deg2rad(yaw) * NoiseUnit]

NoEnv == [open |-> FALSE]
NoCall == [cls |-> None]
NoOutcome == [op |-> None]

\* config.habitat.task.actions of pointnav_habitat_test.yaml.
DefaultTaskActions ==
    [stop |-> "StopAction", move_forward |-> "MoveForwardAction",
     turn_left |-> "TurnLeftAction", turn_right |-> "TurnRightAction"]

ActionInit(yaws) ==
    /\ sim_actions = DefaultHabitatSimActions
    /\ registry = ImportedRegistry
    /\ task_actions = DefaultTaskActions
    /\ action_space_config = "v0"
    /\ env = NoEnv
    /\ \E yaw \in yaws :
           nodes = [n \in Nodes |-> IF n = "agent_body" THEN SceneNode(yaw)
                                                        ELSE SceneNode(0)]
    /\ call = NoCall
    /\ outcome = NoOutcome
    /\ nstrafes = 0
    /\ nerrors = 0

(* ------------------------- the steps of main() ------------------------- *)

\* HabitatSimActions.extend_action_space(name): the new name gets the next
\* integer; a name already known is refused by an assertion.
ExtendActionSpace(name) ==
    /\ name \notin DOMAIN sim_actions
    /\ sim_actions' = (name :> Cardinality(DOMAIN sim_actions)) @@ sim_actions
    /\ UNCHANGED <<registry, task_actions, action_space_config, env, nodes,
                   call, outcome, nstrafes, nerrors, configVars>>

\* config.habitat.task.actions["STRAFE_LEFT"] = ActionConfig(type="StrafeLeft")
\* and the same for STRAFE_RIGHT.
ConfigureTaskActions ==
    /\ "STRAFE_LEFT" \notin DOMAIN task_actions
    /\ task_actions' = DictSet(DictSet(task_actions, "STRAFE_LEFT", "StrafeLeft"),
                               "STRAFE_RIGHT", "StrafeRight")
    /\ UNCHANGED <<sim_actions, registry, action_space_config, env, nodes,
                   call, outcome, nstrafes, nerrors, configVars>>

\* config.habitat.simulator.action_space_config = cfg.
SetActionSpaceConfig(cfg) ==
    /\ action_space_config # cfg
    /\ action_space_config' = cfg
    /\ UNCHANGED <<sim_actions, registry, task_actions, env, nodes,
                   call, outcome, nstrafes, nerrors, configVars>>

\* habitat.Env(config=config) and env.reset(): the simulator's action space
\* is get() of the configured action-space configuration, and the agent is
\* put at the start of the episode.  When get() cannot be evaluated the
\* constructor raises and no environment is open.
EnvOpen ==
    /\ ~env.open
    /\ IF /\ action_space_config \in registry.action_space_configuration
          /\ GetDefined(action_space_config, sim_actions)
       THEN /\ env' = [open |-> TRUE,
                       config |-> action_space_config,
                       task_actions |-> task_actions,
                       action_space |-> ActionSpaceOf(action_space_config, sim_actions)]
            /\ nodes' = [nodes EXCEPT !["agent_body"].translation = <<>>]
            /\ outcome' = [op |-> "Env", result |-> "ok"]
            /\ UNCHANGED nerrors
       ELSE /\ nerrors < MaxErrors
            /\ nerrors' = nerrors + 1
            /\ outcome' = [op |-> "Env", result |-> "error"]
            /\ UNCHANGED <<env, nodes>>
    /\ UNCHANGED <<sim_actions, registry, task_actions, action_space_config,
                   call, nstrafes, configVars>>

\* Leaving the with block: env.close().
EnvClose ==
    /\ env.open
    /\ env' = NoEnv
    /\ UNCHANGED <<sim_actions, registry, task_actions, action_space_config,
                   nodes, call, outcome, nstrafes, nerrors, configVars>>

\* Whether env.step(name) reaches a move function: the task has an action of
\* that name, the simulator action its step() names is known to
\* HabitatSimActions and is a key of the simulator's action space, and the
\* move function of its ActionSpec is registered.
Available(name) ==
    /\ name \in DOMAIN env.task_actions
    /\ TaskActionSimName(env.task_actions[name]) \in DOMAIN sim_actions
    /\ sim_actions[TaskActionSimName(env.task_actions[name])] \in DOMAIN env.action_space
    /\ env.action_space[sim_actions[TaskActionSimName(env.task_actions[name])]].name
           \in DOMAIN registry.move_fn

\* env.step(name): the task action's step() sets the simulator action, the
\* simulator looks it up in its action space and calls the registered move
\* function on the agent's body node with the ActionSpec's actuation spec.
\* A lookup that fails raises the host framework's error and moves nothing.
EnvStep(name) ==
    /\ env.open
    /\ IF Available(name)
       THEN LET spec == env.action_space[
                            sim_actions[TaskActionSimName(env.task_actions[name])]]
                cls == registry.move_fn[spec.name]
            IN  /\ nstrafes < MaxStrafes
                /\ \E ua \in 0 .. UGrid, ud \in 0 .. UGrid :
                       LET r == MoveFn(cls, nodes["agent_body"], spec.actuation, ua, ud)
                       IN  /\ nodes' = [nodes EXCEPT !["agent_body"] = r]
                           /\ call' = [cls |-> cls, node |-> "agent_body",
                                       actuation_spec |-> spec.actuation,
                                       rotation |-> nodes["agent_body"].rotation]
                /\ nstrafes' = nstrafes + 1
                /\ outcome' = [op |-> "step", action |-> name, config |-> env.config,
                               result |-> "ok", moved |-> (nodes' # nodes)]
                /\ UNCHANGED nerrors
       ELSE /\ nerrors < MaxErrors
            /\ nerrors' = nerrors + 1
            /\ UNCHANGED <<nodes, call, nstrafes>>
            /\ outcome' = [op |-> "step", action |-> name, config |-> env.config,
                           result |-> "error", moved |-> (nodes' # nodes)]
    /\ UNCHANGED <<sim_actions, registry, task_actions, action_space_config, env,
                   configVars>>

NextAction ==
    \/ \E name \in StrafeNames : ExtendActionSpace(name)
    \/ ConfigureTaskActions
    \/ \E cfg \in {"NoNoiseStrafe", "NoiseStrafe"} : SetActionSpaceConfig(cfg)
    \/ EnvOpen
    \/ EnvClose
    \/ \E name \in StrafeNames : EnvStep(name)

(* ------------------ the move functions, called directly ---------------- *)

\* Actuation specs a move function is called with: those of the two
\* configurations, and others with a negative distance, another angle and
\* the largest noise.
CallSpecs ==
    { NoisyStrafeActuationSpec([move_amount |-> 25, noise_amount |-> 0]),
      NoisyStrafeActuationSpec([move_amount |-> 25]),
      NoisyStrafeActuationSpec([move_amount |-> 0 - 10, strafe_angle |-> 45,
                                noise_amount |-> NoiseUnit]) }

\* cls()(scene_node, actuation_spec): both classes are registered with
\* body_action=True, so the node they are called on is the agent's body.
CallMoveFn(cls, actuation_spec) ==
    /\ nstrafes < MaxStrafes
    /\ \E ua \in 0 .. UGrid, ud \in 0 .. UGrid :
           LET r == MoveFn(cls, nodes["agent_body"], actuation_spec, ua, ud)
           IN  /\ nodes' = [nodes EXCEPT !["agent_body"] = r]
               /\ call' = [cls |-> cls, node |-> "agent_body",
                           actuation_spec |-> actuation_spec,
                           rotation |-> nodes["agent_body"].rotation]
    /\ nstrafes' = nstrafes + 1
    /\ UNCHANGED <<sim_actions, registry, task_actions, action_space_config,
                   env, outcome, nerrors, configVars>>

NextStrafe ==
    \E cls \in {"NoisyStrafeLeft", "NoisyStrafeRight"}, actuation_spec \in CallSpecs :
        CallMoveFn(cls, actuation_spec)

(***************************************************************************)
(*      habitat_baselines/config/default_structured_configs.py             *)
(*                                                                         *)
(* A float is kept in millionths (0.2 is 200000, 1e-6 is 1), an int as it  *)
(* is, a List or Tuple as a sequence.  A class body is the record of the   *)
(* attributes it assigns.  An attribute whose default is an instance of    *)
(* another dataclass holds the id of that instance on the heap: Python     *)
(* evaluates the default once, when the class statement runs, and every    *)
(* instance constructed later refers to that one object.  An attribute     *)
(* declared with field(default_factory=...) gets a new value in each       *)
(* instance.                                                               *)
(***************************************************************************)

\* omegaconf.II(path): the interpolation "${path}".
II(path) == [interpolation |-> path]

\* @dataclass: the fields of an instance are the annotated attributes of the
\* class body, each with its default.
Dataclass(body, unannotated) == [f \in DOMAIN body \ unannotated |-> body[f]]

WBConfig == [project_name |-> "", entity |-> "", group |-> "", run_name |-> ""]

EvalConfig ==
    [split |-> "val", should_load_ckpt |-> TRUE, evals_per_ep |-> 1,
     video_option |-> <<>>]

PreemptionConfig ==
    [append_slurm_job_id |-> FALSE, save_resume_state_interval |-> 100,
     save_state_batch_only |-> FALSE]

ActionDistributionConfig ==
    [use_log_std |-> TRUE, use_softplus |-> FALSE, log_std_init |-> 0,
     use_std_param |-> FALSE, clamp_std |-> TRUE, min_std |-> 1, max_std |-> 1,
     min_log_std |-> 0 - 5, max_log_std |-> 2, action_activation |-> "tanh",
     scheduled_std |-> FALSE]

SensorUuids == <<"BACK", "DOWN", "FRONT", "LEFT", "RIGHT", "UP">>

CenterCropperConfig ==
    [type |-> "CenterCropper", height |-> 256, width |-> 256,
     channels_last |-> TRUE, trans_keys |-> <<"rgb", "depth", "semantic">>]

ResizeShortestEdgeConfig ==
    [type |-> "ResizeShortestEdge", size |-> 256, channels_last |-> TRUE,
     trans_keys |-> <<"rgb", "depth", "semantic">>, semantic_key |-> "semantic"]

Cube2EqConfig ==
    [type |-> "CubeMap2Equirect", height |-> 256, width |-> 512,
     sensor_uuids |-> SensorUuids]

Cube2FishConfig ==
    [type |-> "CubeMap2Fisheye", height |-> 256, width |-> 256, fov |-> 180,
     params |-> <<200000, 200000, 200000>>, sensor_uuids |-> SensorUuids]

AddVirtualKeysConfig == [type |-> "AddVirtualKeys"]

Eq2CubeConfig ==
    [type |-> "Equirect2CubeMap", height |-> 256, width |-> 256,
     sensor_uuids |-> SensorUuids]

PolicyConfig ==
    [name |-> "PointNavResNetPolicy", action_distribution_type |-> "categorical",
     action_dist |-> "ActionDistributionConfig()", obs_transforms |-> <<>>]

PPOConfig ==
    [clip_param |-> 200000, ppo_epoch |-> 4, num_mini_batch |-> 2,
     value_loss_coef |-> 500000, entropy_coef |-> 10000, lr |-> 250, eps |-> 10,
     max_grad_norm |-> 500000, num_steps |-> 5, use_gae |-> TRUE,
     use_linear_lr_decay |-> FALSE, use_linear_clip_decay |-> FALSE,
     gamma |-> 990000, tau |-> 950000, reward_window_size |-> 50,
     use_normalized_advantage |-> FALSE, hidden_size |-> 512,
     entropy_target_factor |-> 0, use_adaptive_entropy_pen |-> FALSE,
     use_clipped_value_loss |-> TRUE, use_double_buffered_sampler |-> FALSE]

VERConfig ==
    [variable_experience |-> TRUE, num_inference_workers |-> 2,
     overlap_rollouts_and_learn |-> FALSE]

TmpAuxLossConfig == [enabled |-> <<>>]

CPCALossConfig ==
    [k |-> 20, time_subsample |-> 6, future_subsample |-> 2, loss_scale |-> 100000]

DDPPOConfig ==
    [sync_frac |-> 600000, distrib_backend |-> "GLOO", rnn_type |-> "GRU",
     num_recurrent_layers |-> 1, backbone |-> "resnet18",
     pretrained_weights |-> "data/ddppo-models/gibson-2plus-resnet50.pth",
     pretrained |-> FALSE, pretrained_encoder |-> FALSE, train_encoder |-> TRUE,
     reset_critic |-> TRUE, force_distributed |-> FALSE]

RLConfig ==
    [preemption |-> "PreemptionConfig()", policy |-> "PolicyConfig()",
     ppo |-> "PPOConfig()", ver |-> "VERConfig()",
     auxiliary_losses |-> "TmpAuxLossConfig()", ddppo |-> "DDPPOConfig()"]

\* The class body of ORBSLAMConfig: every attribute it assigns.  0.3 * 1.25
\* and 1.0 * 1.25 are the products of the literals, math.radians(15) is the
\* conversion of 15 degrees.
ORBSLAMConfig ==
    [slam_vocab_path |-> "habitat_baselines/slambased/data/ORBvoc.txt",
     slam_settings_path |-> "habitat_baselines/slambased/data/mp3d3_small1k.yaml",
     map_cell_size |-> 100000, map_size |-> 40,
     camera_height |-> II("habitat.simulator.depth_sensor.position[1]"),
     beta |-> 100,
     h_obstacle_min |-> (3 * 1250000) \div 10,
     h_obstacle_max |-> (10 * 1250000) \div 10,
     d_obstacle_min |-> 100000, d_obstacle_max |-> 4000000,
     preprocess_map |-> TRUE, min_pts_in_obstacle |-> (640 * 1000000) \div 2,
     angle_th |-> deg2rad(15), dist_reached_th |-> 150000,
     next_waypoint_th |-> 500000, num_actions |-> 3, dist_to_stop |-> 50000,
     planner_max_steps |-> 500,
     depth_denorm |-> II("habitat.simulator.depth_sensor.max_depth")]

\* The attributes of ORBSLAMConfig assigned without an annotation: plain
\* class attributes, which @dataclass does not make fields.
ORBSLAMConfigUnannotated == {"h_obstacle_max"}

ProfilingConfig == [capture_start_step |-> 0 - 1, num_steps_to_capture |-> 0 - 1]

HabitatBaselinesConfig ==
    [cmd_trailing_opts |-> <<>>, trainer_name |-> "ppo", torch_gpu_id |-> 0,
     video_render_views |-> <<>>, tensorboard_dir |-> "tb", writer_type |-> "tb",
     video_dir |-> "video_dir", video_fps |-> 10, test_episode_count |-> 0 - 1,
     eval_ckpt_path_dir |-> "data/checkpoints", num_environments |-> 16,
     num_processes |-> 0 - 1, checkpoint_folder |-> "data/checkpoints",
     num_updates |-> 10000, num_checkpoints |-> 10, checkpoint_interval |-> 0 - 1,
     total_num_steps |-> 0 - 1000000, log_interval |-> 10, log_file |-> "train.log",
     force_blind_policy |-> FALSE, verbose |-> TRUE,
     eval_keys_to_include_in_name |-> <<>>, force_torch_single_threaded |-> FALSE,
     wb |-> "WBConfig()", load_resume_state_config |-> TRUE,
     eval |-> "EvalConfig()", rl |-> "RLConfig()", orbslam2 |-> "ORBSLAMConfig()",
     profiling |-> "ProfilingConfig()"]

\* The class body and the unannotated attributes of the class named cls.
ClassBody(cls) ==
    CASE cls = "CenterCropperConfig" -> CenterCropperConfig
      [] cls = "ResizeShortestEdgeConfig" -> ResizeShortestEdgeConfig
      [] cls = "Cube2EqConfig" -> Cube2EqConfig
      [] cls = "Cube2FishConfig" -> Cube2FishConfig
      [] cls = "AddVirtualKeysConfig" -> AddVirtualKeysConfig
      [] cls = "Eq2CubeConfig" -> Eq2CubeConfig
      [] cls = "PolicyConfig" -> PolicyConfig
      [] cls = "CPCALossConfig" -> CPCALossConfig
      [] cls = "HabitatBaselinesConfig" -> HabitatBaselinesConfig

\* The instances a class statement creates while its body is evaluated: the
\* defaults written as calls of another dataclass.
DefaultInstances(cls) ==
    CASE cls = "PolicyConfig" ->
             "ActionDistributionConfig()" :> Dataclass(ActionDistributionConfig, {})
      [] cls = "RLConfig" ->
             ("PreemptionConfig()" :> Dataclass(PreemptionConfig, {}))
             @@ ("PolicyConfig()" :> Dataclass(PolicyConfig, {}))
             @@ ("PPOConfig()" :> Dataclass(PPOConfig, {}))
             @@ ("VERConfig()" :> Dataclass(VERConfig, {}))
             @@ ("TmpAuxLossConfig()" :> Dataclass(TmpAuxLossConfig, {}))
             @@ ("DDPPOConfig()" :> Dataclass(DDPPOConfig, {}))
      [] cls = "HabitatBaselinesConfig" ->
             ("WBConfig()" :> Dataclass(WBConfig, {}))
             @@ ("EvalConfig()" :> Dataclass(EvalConfig, {}))
             @@ ("RLConfig()" :> Dataclass(RLConfig, {}))
             @@ ("ORBSLAMConfig()" :> Dataclass(ORBSLAMConfig, ORBSLAMConfigUnannotated))
             @@ ("ProfilingConfig()" :> Dataclass(ProfilingConfig, {}))
      [] OTHER -> <<>>

ObsTransforms == "habitat_baselines/rl/policy/obs_transforms/"

Class(name) == [stmt |-> "class", name |-> name]
CsStore(group, name, node) ==
    [stmt |-> "store", group |-> group, name |-> name, node |-> node]

\* The statements of the module in source order: the class statements and
\* the calls of cs.store.
ModuleBody ==
    << Class("HabitatBaselinesBaseConfig"), Class("WBConfig"), Class("EvalConfig"),
       Class("PreemptionConfig"), Class("ActionDistributionConfig"),
       Class("ObsTransformConfig"),
       Class("CenterCropperConfig"),
       CsStore(ObsTransforms \o "center_cropper", "center_cropper_base",
               "CenterCropperConfig"),
       Class("ResizeShortestEdgeConfig"),
       CsStore(ObsTransforms \o "resize_shortest_edge", "resize_shortest_edge_base",
               "ResizeShortestEdgeConfig"),
       Class("Cube2EqConfig"),
       CsStore(ObsTransforms \o "cube_2_eq", "cube_2_eq_base", "Cube2EqConfig"),
       Class("Cube2FishConfig"),
       CsStore(ObsTransforms \o "cube_2_fish", "cube_2_fish_base", "Cube2FishConfig"),
       Class("AddVirtualKeysConfig"),
       CsStore(ObsTransforms \o "add_virtual_keys", "add_virtual_keys_base",
               "Cube2FishConfig"),
       Class("Eq2CubeConfig"),
       CsStore(ObsTransforms \o "eq_2_cube", "eq_2_cube_base", "Eq2CubeConfig"),
       Class("PolicyConfig"), Class("PPOConfig"), Class("VERConfig"),
       Class("TmpAuxLossConfig"), Class("AuxLossConfig"), Class("CPCALossConfig"),
       Class("DDPPOConfig"), Class("RLConfig"), Class("ORBSLAMConfig"),
       Class("ProfilingConfig"), Class("HabitatBaselinesConfig"),
       CsStore("habitat_baselines", "habitat_baselines_config_base",
               "HabitatBaselinesConfig"),
       CsStore("habitat_baselines/rl/policy", "policy_base", "PolicyConfig"),
       CsStore("habitat_baselines/rl/auxiliary_losses/cpca", "cpca_loss_base",
               "CPCALossConfig"),
       Class("HabitatBaselinesConfigPlugin") >>

Imported == pc > Len(ModuleBody)

NoResolved == [composed |-> FALSE]

ConfigInit ==
    /\ pc = 1
    /\ store = <<>>
    /\ heap = <<>>
    /\ records = {}
    /\ fresh = None
    /\ resolved = NoResolved
    /\ noverrides = 0

\* One statement of the module, run by the import.
ImportStep ==
    /\ ~Imported
    /\ LET st == ModuleBody[pc]
       IN  IF st.stmt = "class"
           THEN /\ heap' = DefaultInstances(st.name) @@ heap
                /\ UNCHANGED store
           ELSE /\ store' = ((st.group \o "/" \o st.name) :> st.node) @@ store
                /\ UNCHANGED heap
    /\ pc' = pc + 1
    /\ UNCHANGED <<records, fresh, resolved, noverrides, actionVars>>

\* The ids of the records constructed after the import.
RecordIds == {"cfg" \o ToString(i) : i \in 1 .. MaxRecords}

\* HabitatBaselinesConfig(): a new record, each field set to its default.
Construct(id) ==
    /\ Imported
    /\ id \notin records
    /\ heap' = (id :> Dataclass(HabitatBaselinesConfig, {})) @@ heap
    /\ records' = records \cup {id}
    /\ fresh' = id
    /\ UNCHANGED <<pc, store, resolved, noverrides, actionVars>>

\* The object reached from object id along the attributes of path.
RECURSIVE Follow(_, _, _)
Follow(h, id, path) ==
    IF path = <<>> THEN id ELSE Follow(h, h[id][Head(path)], Tail(path))

\* Overrides a user applies to a record: record.path.field = value.
Overrides ==
    << [path |-> <<>>, field |-> "trainer_name", value |-> "ddppo"],
       [path |-> <<>>, field |-> "cmd_trailing_opts", value |-> <<"--debug">>],
       [path |-> <<"wb">>, field |-> "project_name", value |-> "habitat"],
       [path |-> <<"eval">>, field |-> "video_option", value |-> <<"disk">>],
       [path |-> <<"rl", "preemption">>, field |-> "append_slurm_job_id",
        value |-> TRUE],
       [path |-> <<"rl", "policy">>, field |-> "name", value |-> "PointNavBaselinePolicy"],
       [path |-> <<"rl", "policy", "action_dist">>, field |-> "use_softplus",
        value |-> TRUE],
       [path |-> <<"rl", "ppo">>, field |-> "num_steps", value |-> 128],
       [path |-> <<"rl", "ver">>, field |-> "variable_experience", value |-> FALSE],
       [path |-> <<"rl", "auxiliary_losses">>, field |-> "enabled",
        value |-> <<"cpca">>],
       [path |-> <<"rl", "ddppo">>, field |-> "backbone", value |-> "resnet50"],
       [path |-> <<"orbslam2">>, field |-> "map_size", value |-> 80],
       [path |-> <<"profiling">>, field |-> "capture_start_step", value |-> 0] >>

\* record.path.field = value: an assignment to an attribute of the object the
\* path leads to.
Override(id, o) ==
    /\ id \in records
    /\ noverrides < MaxOverrides
    /\ heap' = [heap EXCEPT ![Follow(heap, id, o.path)][o.field] = o.value]
    /\ noverrides' = noverrides + 1
    /\ fresh' = None
    /\ UNCHANGED <<pc, store, records, resolved, actionVars>>

\* The attributes of ORBSLAMConfig whose default is an interpolation.
Interpolated == {"camera_height", "depth_denorm"}

\* The values the interpolations read: the depth sensor of the task
\* configuration, with position[1] (the camera height) as given and the
\* default max_depth of 10.0.
TaskConfig(height) ==
    ("habitat.simulator.depth_sensor.position[1]" :> height)
    @@ ("habitat.simulator.depth_sensor.max_depth" :> 10000000)

\* A node with its interpolations resolved against root.
ResolveNode(node, root) ==
    [f \in DOMAIN node |->
        IF f \in Interpolated THEN root[node[f].interpolation] ELSE node[f]]

\* The camera heights of the task configuration: the default 1.25 and two
\* other mountings.
CameraHeights == {1250000, 1500000, 880000}

\* The configuration composed and resolved: habitat_baselines.orbslam2 is the
\* structured config of the orbslam2 field of the schema stored as
\* habitat_baselines_config_base, that is the fields of ORBSLAMConfig, with
\* the interpolations resolved against the task configuration.
Resolve(height) ==
    /\ Imported
    /\ "habitat_baselines/habitat_baselines_config_base" \in DOMAIN store
    /\ ClassBody(store["habitat_baselines/habitat_baselines_config_base"]).orbslam2
           = "ORBSLAMConfig()"
    /\ resolved' = ResolveNode(Dataclass(ORBSLAMConfig, ORBSLAMConfigUnannotated),
                               TaskConfig(height))
    /\ UNCHANGED <<pc, store, heap, records, fresh, noverrides, actionVars>>

NextConfig ==
    \/ ImportStep
    \/ \E id \in RecordIds : Construct(id)
    \/ \E id \in RecordIds, i \in 1 .. Len(Overrides) : Override(id, Overrides[i])
    \/ \E height \in CameraHeights : Resolve(height)

\* The values of a record as a user reads them: each nested record read
\* through the reference the field holds.
DeepPolicyConfig(h, id) ==
    [h[id] EXCEPT !.action_dist = h[h[id].action_dist]]

DeepRLConfig(h, id) ==
    [preemption |-> h[h[id].preemption],
     policy |-> DeepPolicyConfig(h, h[id].policy),
     ppo |-> h[h[id].ppo],
     ver |-> h[h[id].ver],
     auxiliary_losses |-> h[h[id].auxiliary_losses],
     ddppo |-> h[h[id].ddppo]]

DeepHabitatBaselinesConfig(h, id) ==
    [h[id] EXCEPT !.wb = h[h[id].wb],
                  !.eval = h[h[id].eval],
                  !.rl = DeepRLConfig(h, h[id].rl),
                  !.orbslam2 = h[h[id].orbslam2],
                  !.profiling = h[h[id].profiling]]

(***************************************************************************)
(*                          The specifications                             *)
(***************************************************************************)

Init == ActionInit(StartYaws) /\ ConfigInit

\* main() of the example: the environment and its steps.
Next == NextAction
Spec == Init /\ [][Next]_vars

\* The move functions called with any actuation spec on any node.
StrafeSpec == Init /\ [][NextStrafe]_vars

\* The import of the configuration module and the use of its records.
ConfigSpec == Init /\ [][NextConfig]_vars

(***************************************************************************)
(*                              The claims                                 *)
(***************************************************************************)

\* The term the last call of a move function added to its node's translation,
\* and the angle and the distance it was made of.
Displacement ==
    nodes[call.node].translation[Len(nodes[call.node].translation)]
AngleUsed == Displacement.dir - call.rotation
DistanceUsed == Displacement.len

\* The nominal angle of the last call in micro-radians: the spec's angle for
\* NoisyStrafeLeft, its negation for NoisyStrafeRight.
NominalAngle ==
    IF call.cls = "NoisyStrafeLeft"
    THEN call.actuation_spec.strafe_angle * MicroRadPerDeg
    ELSE 0 - call.actuation_spec.strafe_angle * MicroRadPerDeg

Between(x, a, b) == (a <= x /\ x <= b) \/ (b <= x /\ x <= a)

\* The point u of UGrid between low and high.
GridPoint(low, high, u) == low + ((high - low) * u) \div UGrid

\* The band of a nominal value x under noise n, in 1/NoiseUnit of x's unit.
BandLow(n, x) == (NoiseUnit - n) * x
BandHigh(n, x) == (NoiseUnit + n) * x

\* C1, the band: after every call of a move function with
\* 0 <= noise_amount <= 1, the angle used for the rotation lies between
\* (1 - noise_amount) and (1 + noise_amount) times the nominal angle, and
\* the distance translated between (1 - noise_amount) and
\* (1 + noise_amount) times the nominal move_amount.
C1_InBand ==
    (call.cls # None /\ call.actuation_spec.noise_amount \in 0 .. NoiseUnit) =>
        /\ Between(AngleUsed,
                   BandLow(call.actuation_spec.noise_amount, NominalAngle),
                   BandHigh(call.actuation_spec.noise_amount, NominalAngle))
        /\ Between(DistanceUsed,
                   BandLow(call.actuation_spec.noise_amount,
                           call.actuation_spec.move_amount),
                   BandHigh(call.actuation_spec.noise_amount,
                            call.actuation_spec.move_amount))

\* C1, the independence: wherever a move function can be called, every pair
\* of a grid point of the angle's band and a grid point of the distance's
\* band is the outcome of some call.
C1_EveryPair ==
    nstrafes < MaxStrafes =>
        \A cls \in {"NoisyStrafeLeft", "NoisyStrafeRight"},
           sp \in CallSpecs, ua \in 0 .. UGrid, ud \in 0 .. UGrid :
            LET nominal == IF cls = "NoisyStrafeLeft"
                           THEN sp.strafe_angle * MicroRadPerDeg
                           ELSE 0 - sp.strafe_angle * MicroRadPerDeg
            IN  ENABLED ( /\ CallMoveFn(cls, sp)
                          /\ LET t == nodes'["agent_body"].translation
                             IN  /\ t[Len(t)].dir - nodes["agent_body"].rotation =
                                        GridPoint(BandLow(sp.noise_amount, nominal),
                                                  BandHigh(sp.noise_amount, nominal), ua)
                                 /\ t[Len(t)].len =
                                        GridPoint(BandLow(sp.noise_amount, sp.move_amount),
                                                  BandHigh(sp.noise_amount, sp.move_amount),
                                                  ud) )

\* C1: the angle and the distance a strafe uses lie in their multiplicative
\* noise bands, and the two are drawn independently.
C1_NoiseBand == C1_InBand /\ C1_EveryPair

\* A noisy call of NoisyStrafeRight that used the angle at one end of its
\* band and the distance at the other end of its band.
C1_Witness ==
    /\ call.cls = "NoisyStrafeRight"
    /\ call.actuation_spec.noise_amount = 5
    /\ AngleUsed = BandLow(5, NominalAngle)
    /\ DistanceUsed = BandHigh(5, call.actuation_spec.move_amount)

\* C2: with noise_amount 0 a strafe is deterministic: whatever the random
\* generator draws, the node after the call is the node before it with its
\* translation grown by exactly move_amount along the node's forward vector
\* rotated by exactly the nominal angle about UP.
C2_NoNoiseExact ==
    [][(nstrafes' # nstrafes /\ call'.actuation_spec.noise_amount = 0) =>
          nodes' = [nodes EXCEPT ![call'.node].translation =
                       Append(@, [dir |-> nodes[call'.node].rotation
                                              + NominalAngle' * NoiseUnit,
                                  len |-> call'.actuation_spec.move_amount
                                              * NoiseUnit])]]_vars

\* A call of NoisyStrafeRight without noise on a node that is turned, after
\* an earlier call on the same node.
C2_Witness ==
    /\ call.cls = "NoisyStrafeRight"
    /\ call.actuation_spec.noise_amount = 0
    /\ call.rotation # 0
    /\ Len(nodes[call.node].translation) = 2

\* C3: a strafe changes only the translation of the node it is given: every
\* node keeps its rotation, every other node is unchanged, the translation
\* grows by one term, and the environment (which holds the actuation spec
\* passed in), the registries, HabitatSimActions and the configuration are
\* unchanged.
C3_StrafeFrame ==
    [][nstrafes' # nstrafes =>
          /\ \A n \in Nodes : nodes'[n].rotation = nodes[n].rotation
          /\ \A n \in Nodes \ {call'.node} : nodes'[n] = nodes[n]
          /\ Len(nodes'[call'.node].translation)
                 = Len(nodes[call'.node].translation) + 1
          /\ call'.actuation_spec \in
                 {env.action_space[k].actuation : k \in DOMAIN env.action_space}
          /\ env' = env
          /\ registry' = registry
          /\ sim_actions' = sim_actions
          /\ task_actions' = task_actions
          /\ action_space_config' = action_space_config]_vars

\* A noisy strafe to the right made through the environment.
C3_Witness ==
    /\ outcome = [op |-> "step", action |-> "STRAFE_RIGHT", config |-> "NoiseStrafe",
                  result |-> "ok", moved |-> TRUE]
    /\ call.cls = "NoisyStrafeRight"
    /\ Len(nodes["agent_body"].translation) = 2

\* C4: the action space of NoNoiseStrafe and of NoiseStrafe keeps every
\* action of HabitatSimV1ActionSpaceConfiguration.get() with the same action
\* spec, and the only other keys are STRAFE_LEFT and STRAFE_RIGHT.
C4_KeepsBase ==
    (env.open /\ env.config \in {"NoNoiseStrafe", "NoiseStrafe"}) =>
        LET base == HabitatSimV1Get(sim_actions)
        IN  /\ \A k \in DOMAIN base :
                   k \in DOMAIN env.action_space /\ env.action_space[k] = base[k]
            /\ DOMAIN env.action_space \ DOMAIN base
                   = {sim_actions.STRAFE_LEFT, sim_actions.STRAFE_RIGHT}

\* An environment open under NoiseStrafe, STRAFE_RIGHT having been added to
\* HabitatSimActions before STRAFE_LEFT.
C4_Witness ==
    /\ env.open
    /\ env.config = "NoiseStrafe"
    /\ sim_actions.STRAFE_RIGHT < sim_actions.STRAFE_LEFT

\* The action spec the two configurations give a strafe, for a move function
\* and a noise amount.
StrafeActionSpec(fn, noise) ==
    [name |-> fn,
     actuation |-> [move_amount |-> 25, strafe_angle |-> 90, noise_amount |-> noise]]

\* C5: in both configurations STRAFE_LEFT is bound to "noisy_strafe_left" and
\* STRAFE_RIGHT to "noisy_strafe_right", with move_amount 0.25 and
\* strafe_angle 90; noise_amount is 0.0 in NoNoiseStrafe and 0.05 in
\* NoiseStrafe, and the two action spaces differ in nothing else.
C5_SameActionsOtherNoise ==
    /\ (env.open /\ env.config = "NoNoiseStrafe") =>
           /\ env.action_space[sim_actions.STRAFE_LEFT]
                  = StrafeActionSpec("noisy_strafe_left", 0)
           /\ env.action_space[sim_actions.STRAFE_RIGHT]
                  = StrafeActionSpec("noisy_strafe_right", 0)
    /\ (env.open /\ env.config = "NoiseStrafe") =>
           /\ env.action_space[sim_actions.STRAFE_LEFT]
                  = StrafeActionSpec("noisy_strafe_left", 5)
           /\ env.action_space[sim_actions.STRAFE_RIGHT]
                  = StrafeActionSpec("noisy_strafe_right", 5)
    /\ StrafeNames \subseteq DOMAIN sim_actions =>
           LET a == NoNoiseStrafeGet(sim_actions)
               b == NoiseStrafeGet(sim_actions)
           IN  /\ DOMAIN a = DOMAIN b
               /\ \A k \in DOMAIN a :
                      /\ a[k].name = b[k].name
                      /\ a[k] # b[k] =>
                             /\ k \in {sim_actions.STRAFE_LEFT, sim_actions.STRAFE_RIGHT}
                             /\ [a[k].actuation EXCEPT !.noise_amount = 5]
                                    = b[k].actuation

\* An environment open under NoNoiseStrafe in which a strafe was stepped.
C5_Witness ==
    /\ env.open
    /\ env.config = "NoNoiseStrafe"
    /\ outcome.op = "step"
    /\ outcome.config = "NoNoiseStrafe"
    /\ outcome.result = "ok"

\* C6: under the default action space the new actions are unavailable: their
\* keys are not in the simulator's action space, and stepping one ends in
\* the error outcome and moves nothing; under NoNoiseStrafe or NoiseStrafe
\* both keys are in the action space, each bound to a registered move
\* function, and a step of an action the task knows moves the agent.
C6_DefaultUnavailable ==
    /\ (env.open /\ env.config = "v0") =>
           \A name \in StrafeNames \cap DOMAIN sim_actions :
               sim_actions[name] \notin DOMAIN env.action_space
    /\ (outcome.op = "step" /\ outcome.config = "v0") =>
           outcome.result = "error" /\ ~outcome.moved
    /\ (env.open /\ env.config \in {"NoNoiseStrafe", "NoiseStrafe"}) =>
           \A name \in StrafeNames :
               /\ name \in DOMAIN sim_actions
               /\ sim_actions[name] \in DOMAIN env.action_space
               /\ env.action_space[sim_actions[name]].name \in DOMAIN registry.move_fn
               /\ name \in DOMAIN env.task_actions => Available(name)
    /\ (outcome.op = "step" /\ outcome.result = "ok") =>
           outcome.moved /\ outcome.config \in {"NoNoiseStrafe", "NoiseStrafe"}

\* A step of STRAFE_LEFT that ended in the error although the action was
\* added to HabitatSimActions and to the task: only action_space_config was
\* left at its default.
C6_Witness ==
    /\ env.open
    /\ env.config = "v0"
    /\ outcome = [op |-> "step", action |-> "STRAFE_LEFT", config |-> "v0",
                  result |-> "error", moved |-> FALSE]
    /\ "STRAFE_LEFT" \in DOMAIN env.task_actions
    /\ StrafeNames \subseteq DOMAIN sim_actions

\* The literals the class bodies declare for a HabitatBaselinesConfig and
\* its nested records.
DeclaredDefaults ==
    [HabitatBaselinesConfig EXCEPT
        !.wb = WBConfig,
        !.eval = EvalConfig,
        !.rl = [preemption |-> PreemptionConfig,
                policy |-> [PolicyConfig EXCEPT !.action_dist = ActionDistributionConfig],
                ppo |-> PPOConfig,
                ver |-> VERConfig,
                auxiliary_losses |-> TmpAuxLossConfig,
                ddppo |-> DDPPOConfig],
        !.orbslam2 = Dataclass(ORBSLAMConfig, ORBSLAMConfigUnannotated),
        !.profiling = ProfilingConfig]

\* C7: a HabitatBaselinesConfig constructed with no overrides has every
\* field, those of its nested records included, equal to the declared
\* literal, whatever overrides were applied before to the fields or nested
\* records of records constructed earlier.
C7_FreshRecordHasDefaults ==
    fresh # None => DeepHabitatBaselinesConfig(heap, fresh) = DeclaredDefaults

\* The key of the entry add_virtual_keys_base.
AddVirtualKeysEntry == ObsTransforms \o "add_virtual_keys/add_virtual_keys_base"

\* C8: after the import every entry stored right below a class statement
\* holds that class; the entry add_virtual_keys_base resolves to
\* AddVirtualKeysConfig, whose only field is type = "AddVirtualKeys"; and no
\* two entries resolve to the same schema.
C8_StoredAsDeclared ==
    Imported =>
        /\ \A i \in 2 .. Len(ModuleBody) :
               (ModuleBody[i].stmt = "store" /\ ModuleBody[i - 1].stmt = "class") =>
                   store[ModuleBody[i].group \o "/" \o ModuleBody[i].name]
                       = ModuleBody[i - 1].name
        /\ store[AddVirtualKeysEntry] = "AddVirtualKeysConfig"
        /\ ClassBody(store[AddVirtualKeysEntry]).type = "AddVirtualKeys"
        /\ DOMAIN ClassBody(store[AddVirtualKeysEntry]) = {"type"}
        /\ \A k1, k2 \in DOMAIN store : k1 # k2 => store[k1] # store[k2]

\* C9: in every resolved ORB-SLAM configuration h_obstacle_min and
\* h_obstacle_max are fields, h_obstacle_min is 0.3 times camera_height and
\* h_obstacle_max is 1.0 times camera_height.
C9_ThresholdsFollowCamera ==
    "camera_height" \in DOMAIN resolved =>
        /\ 10 * resolved.h_obstacle_min = 3 * resolved.camera_height
        /\ "h_obstacle_max" \in DOMAIN resolved
        /\ resolved.h_obstacle_max = resolved.camera_height

====
